---- MODULE Spec2Model ----
\* pnpm-registry-summary: which scoped packages of a pnpm lockfile resolve to
\* non-default registries, according to the layered .npmrc configuration.
\*
\* Strings whose characters the program inspects (config lines, package keys,
\* registry URLs) are sequences of one-character strings.  File paths are
\* records [dir, base]; the file system is a function from paths to entries.
EXTENDS Integers, Sequences, FiniteSets, TLC

\* ---------------------------------------------------------------- bounds
MaxLines == 2
MaxPkgs == 3
MaxCalls == 3

\* ------------------------------------------------------------ characters
\* The characters used, in ascending UTF-16 code unit order (the order
\* Array.prototype.sort compares strings by).
CodeOrder ==
    << "\t", " ", "#", ".", "/", "0", "1", "2", "3", "4", "5", "6", "7", "8",
       "9", ":", "=", "@", "R", "_",
       "a", "b", "c", "e", "g", "h", "i", "j", "k", "m", "n", "o", "p", "q",
       "r", "s", "t", "u", "x", "y", "z" >>

Rank(c) == CHOOSE i \in 1..Len(CodeOrder) : CodeOrder[i] = c

\* \s and String.prototype.trim whitespace occurring in the inputs
WS == {" ", "\t"}

DigitChars == << "0", "1", "2", "3", "4", "5", "6", "7", "8", "9" >>

REGISTRY == << "r", "e", "g", "i", "s", "t", "r", "y" >>
PACKAGES == << "p", "a", "c", "k", "a", "g", "e", "s" >>

\* 'https://registry.npmjs.org/'
NpmjsRegistry ==
    << "h", "t", "t", "p", "s", ":", "/", "/" >> \o REGISTRY
        \o << ".", "n", "p", "m", "j", "s", ".", "o", "r", "g", "/" >>

\* ------------------------------------------------------- string helpers
RECURSIVE trimStart(_)
trimStart(s) ==
    IF s # <<>> /\ Head(s) \in WS THEN trimStart(Tail(s)) ELSE s

RECURSIVE trimEnd(_)
trimEnd(s) ==
    IF s # <<>> /\ s[Len(s)] \in WS THEN trimEnd(SubSeq(s, 1, Len(s) - 1)) ELSE s

\* String.prototype.trim
trim(s) == trimEnd(trimStart(s))

\* String.prototype.indexOf, 1-based; 0 when c does not occur
indexOf(s, c) ==
    IF \E i \in 1..Len(s) : s[i] = c
    THEN CHOOSE i \in 1..Len(s) : s[i] = c /\ \A j \in 1..(i - 1) : s[j] # c
    ELSE 0

\* s.split(c)[0]
splitFirst(s, c) ==
    IF indexOf(s, c) = 0 THEN s ELSE SubSeq(s, 1, indexOf(s, c) - 1)

startsWith(s, p) == Len(s) >= Len(p) /\ SubSeq(s, 1, Len(p)) = p

drop(s, n) == SubSeq(s, n + 1, Len(s))

reverse(s) == [i \in 1..Len(s) |-> s[Len(s) + 1 - i]]

\* a < b by UTF-16 code units
lexLess(a, b) ==
    \/ Len(a) < Len(b) /\ SubSeq(b, 1, Len(a)) = a
    \/ \E i \in 1..Len(a) :
          /\ i <= Len(b)
          /\ SubSeq(a, 1, i - 1) = SubSeq(b, 1, i - 1)
          /\ Rank(a[i]) < Rank(b[i])

\* the elements of the finite set S of strings as an ascending sequence
RECURSIVE sortSet(_)
sortSet(S) ==
    IF S = {} THEN <<>>
    ELSE LET m == CHOOSE x \in S : \A y \in S \ {x} : lexLess(x, y)
         IN  <<m>> \o sortSet(S \ {m})

RECURSIVE insertSorted(_, _)
insertSorted(s, x) ==
    IF s = <<>> THEN <<x>>
    ELSE IF lexLess(x, Head(s)) THEN <<x>> \o s
    ELSE <<Head(s)>> \o insertSorted(Tail(s), x)

\* Array.prototype.sort with the default comparison
RECURSIVE sort(_)
sort(s) == IF s = <<>> THEN <<>> ELSE insertSorted(sort(Tail(s)), Head(s))

Range(s) == {s[i] : i \in 1..Len(s)}

\* the values of a finite function
Values(f) == {f[x] : x \in DOMAIN f}

\* sequences over S of length at most n
SeqUpTo(S, n) == UNION {[1..k -> S] : k \in 0..n}

\* a JS object as a finite function from own keys to values
EmptyMap == [k \in {} |-> <<>>]

put(f, k, v) == [x \in DOMAIN f \cup {k} |-> IF x = k THEN v ELSE f[x]]

\* --------------------------------------------------- regular expressions
NoMatch == [matched |-> FALSE]

\* \s*=\s*(.+)$ applied at the start of s: after '=' the greedy \s* gives
\* back one character when nothing else is left for (.+)
matchAssignment(s) ==
    LET a == trimStart(s) IN
    IF a = <<>> \/ Head(a) # "=" \/ Len(a) < 2 THEN NoMatch
    ELSE LET tail == Tail(a)
             t == trimStart(tail)
         IN  [matched |-> TRUE,
              value |-> IF t = <<>> THEN <<tail[Len(tail)]>> ELSE t]

\* cleanLine.match(/^(@[^:]+):registry\s*=\s*(.+)$/)
scopedMatch(cleanLine) ==
    LET c == indexOf(cleanLine, ":") IN
    IF cleanLine = <<>> \/ Head(cleanLine) # "@" \/ c < 3 THEN NoMatch
    ELSE IF ~startsWith(drop(cleanLine, c), REGISTRY) THEN NoMatch
    ELSE LET m == matchAssignment(drop(cleanLine, c + Len(REGISTRY))) IN
         IF m.matched
         THEN [matched |-> TRUE, scope |-> SubSeq(cleanLine, 1, c - 1),
               registry |-> m.value]
         ELSE NoMatch

\* cleanLine.match(/^registry\s*=\s*(.+)$/)
defaultMatch(cleanLine) ==
    IF ~startsWith(cleanLine, REGISTRY) THEN NoMatch
    ELSE matchAssignment(drop(cleanLine, Len(REGISTRY)))

\* the match of /^(@[^/]+)/, which does not ask for the '/' after the scope
pkgScopeMatchNoSlash(pkg) ==
    LET i == indexOf(pkg, "/") IN
    IF pkg = <<>> \/ Head(pkg) # "@" \/ i = 2 \/ Len(pkg) < 2 THEN NoMatch
    ELSE [matched |-> TRUE,
          scope |-> IF i = 0 THEN pkg ELSE SubSeq(pkg, 1, i - 1)]

\* pkg.match(/^(@[^/]+)\//)
pkgScopeMatch(pkg) ==
    LET i == indexOf(pkg, "/") IN
    IF pkg = <<>> \/ Head(pkg) # "@" \/ i < 3 THEN NoMatch
    ELSE [matched |-> TRUE, scope |-> SubSeq(pkg, 1, i - 1)]

\* ------------------------------------------------------------ JS values
\* What yaml.load returns: undefined (empty document), null, a scalar, a list
\* or a mapping; a mapping keeps its keys in insertion order.
Undefined == [t |-> "undefined"]
Null == [t |-> "null"]
Bool(b) == [t |-> "boolean", b |-> b]
Num(n) == [t |-> "number", n |-> n]
Str(s) == [t |-> "string", s |-> s]
Arr(a) == [t |-> "array", a |-> a]
Obj(props) == [t |-> "object", props |-> props]

\* a mapping whose keys are ks, each with empty metadata
ObjOfKeys(ks) == Obj([i \in 1..Len(ks) |-> [k |-> ks[i], v |-> Obj(<<>>)]])

\* v?.k for a key k that no prototype defines
getProp(v, k) ==
    IF v.t = "object" /\ \E i \in 1..Len(v.props) : v.props[i].k = k
    THEN v.props[CHOOSE i \in 1..Len(v.props) : v.props[i].k = k].v
    ELSE Undefined

truthy(v) ==
    CASE v.t \in {"undefined", "null"} -> FALSE
      [] v.t = "boolean" -> v.b
      [] v.t = "number" -> v.n # 0
      [] v.t = "string" -> v.s # <<>>
      [] OTHER -> TRUE

\* a || {}
orEmptyObject(v) == IF truthy(v) THEN v ELSE Obj(<<>>)

\* the canonical array-index keys, which an object enumerates first
isArrayIndex(k) ==
    /\ k # <<>>
    /\ \A i \in 1..Len(k) : k[i] \in Range(DigitChars)
    /\ Len(k) = 1 \/ k[1] # "0"

RECURSIVE indexValue(_)
indexValue(k) ==
    IF k = <<>> THEN 0
    ELSE 10 * indexValue(SubSeq(k, 1, Len(k) - 1))
           + (CHOOSE d \in 0..9 : DigitChars[d + 1] = k[Len(k)])

\* String(i) for a one-digit index
indexKey(i) == << DigitChars[i + 1] >>

RECURSIVE sortIndexKeys(_)
sortIndexKeys(S) ==
    IF S = {} THEN <<>>
    ELSE LET m == CHOOSE x \in S : \A y \in S : indexValue(x) <= indexValue(y)
         IN  <<m>> \o sortIndexKeys(S \ {m})

\* Object.keys(v) for a value that is not undefined or null
ObjectKeys(v) ==
    CASE v.t = "object" ->
           LET ks == [i \in 1..Len(v.props) |-> v.props[i].k]
           IN  sortIndexKeys({k \in Range(ks) : isArrayIndex(k)})
                 \o SelectSeq(ks, LAMBDA k : ~isArrayIndex(k))
      [] v.t = "array" -> [i \in 1..Len(v.a) |-> indexKey(i - 1)]
      [] v.t = "string" -> [i \in 1..Len(v.s) |-> indexKey(i - 1)]
      [] OTHER -> <<>>

\* own properties of Object.prototype, which every {} inherits
ObjectPrototypeKeys ==
    { << "c", "o", "n", "s", "t", "r", "u", "c", "t", "o", "r" >>,
      << "t", "o", "S", "t", "r", "i", "n", "g" >>,
      << "v", "a", "l", "u", "e", "O", "f" >>,
      << "_", "_", "p", "r", "o", "t", "o", "_", "_" >> }

\* ---------------------------------------------------------- file system
HomeDir == "/home/u"
ProjDir == "/proj"
Dirs == {HomeDir, ProjDir}
NPMRC == ".npmrc"
LOCKFILE == "pnpm-lock.yaml"

\* path.join(dir, base)
join(dir, base) == [dir |-> dir, base |-> base]

\* path.dirname
dirname(p) == p.dir

\* null, as resolveLockfilePath returns it
NullPath == [dir |-> "", base |-> ""]

NpmrcPaths == {join(d, NPMRC) : d \in Dirs}
LockPaths == {join(d, LOCKFILE) : d \in Dirs}
Paths == NpmrcPaths \cup LockPaths

Absent == [kind |-> "absent"]
Directory == [kind |-> "dir"]

\* a text file, as the lines split('\n') yields
TextFile(lines) == [kind |-> "file", lines |-> lines]

\* a lockfile, as what yaml.load makes of its content
YamlFile(doc) == [kind |-> "file", parses |-> TRUE, doc |-> doc]
BadYamlFile == [kind |-> "file", parses |-> FALSE, doc |-> Undefined]

\* fs.existsSync
existsSync(f, p) == p \in DOMAIN f /\ f[p].kind # "absent"

\* ---------------------------------------------------------------- errors
NoError == [message |-> "", cause |-> ""]
NotFoundError == [message |-> "Lockfile not found", cause |-> ""]
ParseError(cause) == [message |-> "Failed to parse lockfile", cause |-> cause]
\* what fs.readFileSync throws on a directory
EISDIR == [message |-> "EISDIR", cause |-> ""]

\* -------------------------------------------------- resolveLockfilePath
\* process.argv[2]: absent, the empty string, a relative or an absolute path
NoArg == [given |-> FALSE, abs |-> FALSE, dir |-> "", base |-> ""]
EmptyArg == [given |-> TRUE, abs |-> FALSE, dir |-> "", base |-> ""]
RelArg == [given |-> TRUE, abs |-> FALSE, dir |-> "", base |-> LOCKFILE]
AbsArg(d) == [given |-> TRUE, abs |-> TRUE, dir |-> d, base |-> LOCKFILE]

\* !input
falsyArg(input) == ~input.given \/ (input.dir = "" /\ input.base = "")

resolveLockfilePath(input, workdir) ==
    IF falsyArg(input) THEN NullPath
    ELSE IF input.abs THEN join(input.dir, input.base)
    ELSE join(workdir, input.base)

\* ------------------------------------------------------- findNpmrcFiles
\* findNpmrcFiles with push in place of unshift: the project-level path last
findNpmrcFilesPush(f, lockPath) ==
    LET user == << join(HomeDir, NPMRC) >>
        locations ==
            IF lockPath # NullPath
            THEN user \o << join(dirname(lockPath), NPMRC) >>
            ELSE user
    IN  SelectSeq(locations, LAMBDA p : existsSync(f, p))

findNpmrcFiles(f, lockPath) ==
    LET user == << join(HomeDir, NPMRC) >>
        locations ==
            IF lockPath # NullPath
            THEN << join(dirname(lockPath), NPMRC) >> \o user
            ELSE user
    IN  SelectSeq(locations, LAMBDA p : existsSync(f, p))

\* ----------------------------------------------------------- parseNpmrc
\* the loop body with a scope that is already set left as it is
parseLineKeepFirst(acc, line) ==
    LET cleanLine == splitFirst(trim(line), "#") IN
    IF cleanLine = <<>> THEN acc
    ELSE IF scopedMatch(cleanLine).matched
    THEN IF scopedMatch(cleanLine).scope \in DOMAIN acc.registryMap THEN acc
         ELSE [acc EXCEPT !.registryMap =
                  put(@, scopedMatch(cleanLine).scope,
                      trim(scopedMatch(cleanLine).registry))]
    ELSE IF defaultMatch(cleanLine).matched
    THEN [acc EXCEPT !.defaultRegistry = trim(defaultMatch(cleanLine).value)]
    ELSE acc

\* one iteration of the loop over lines; acc holds registryMap and
\* defaultRegistry
parseLine(acc, line) ==
    LET cleanLine == splitFirst(trim(line), "#") IN
    IF cleanLine = <<>> THEN acc
    ELSE IF scopedMatch(cleanLine).matched
    THEN [acc EXCEPT !.registryMap =
             put(@, scopedMatch(cleanLine).scope,
                 trim(scopedMatch(cleanLine).registry))]
    ELSE IF defaultMatch(cleanLine).matched
    THEN [acc EXCEPT !.defaultRegistry = trim(defaultMatch(cleanLine).value)]
    ELSE acc

RECURSIVE parseLines(_, _)
parseLines(lines, acc) ==
    IF lines = <<>> THEN acc
    ELSE parseLines(Tail(lines), parseLine(acc, Head(lines)))

\* the loop over files, in the order given; stops at the first error
RECURSIVE parseFiles(_, _, _)
parseFiles(f, paths, acc) ==
    IF paths = <<>> \/ acc.error # NoError THEN acc
    ELSE IF ~existsSync(f, Head(paths)) THEN parseFiles(f, Tail(paths), acc)
    ELSE IF f[Head(paths)].kind = "dir"
    THEN [acc EXCEPT !.error = EISDIR, !.reads = @ \cup {Head(paths)}]
    ELSE parseFiles(f, Tail(paths),
                    parseLines(f[Head(paths)].lines,
                               [acc EXCEPT !.reads = @ \cup {Head(paths)}]))

\* parseNpmrc iterating filePaths as given, without the reverse
parseNpmrcNoReverse(f, filePaths) ==
    LET r == parseFiles(f, filePaths,
                        [registryMap |-> EmptyMap,
                         defaultRegistry |-> NpmjsRegistry,
                         error |-> NoError, reads |-> {}])
    IN  [filePaths |-> filePaths, registryMap |-> r.registryMap,
         defaultRegistry |-> r.defaultRegistry, error |-> r.error,
         reads |-> r.reads]

\* filePaths.reverse() reverses the caller's array in place: the result
\* carries the array as the call leaves it
parseNpmrc(f, filePaths) ==
    LET r == parseFiles(f, reverse(filePaths),
                        [registryMap |-> EmptyMap,
                         defaultRegistry |-> NpmjsRegistry,
                         error |-> NoError, reads |-> {}])
    IN  [filePaths |-> reverse(filePaths), registryMap |-> r.registryMap,
         defaultRegistry |-> r.defaultRegistry, error |-> r.error,
         reads |-> r.reads]

\* ------------------------------------------------------- lockfile scans
\* the read with a 'packages' value that is no mapping rejected
readPackageKeysStrict(f, lockPath) ==
    IF f[lockPath].kind = "dir" THEN [cause |-> "EISDIR", keys |-> <<>>]
    ELSE IF ~f[lockPath].parses THEN [cause |-> "YAMLException", keys |-> <<>>]
    ELSE IF /\ truthy(getProp(f[lockPath].doc, PACKAGES))
            /\ getProp(f[lockPath].doc, PACKAGES).t # "object"
    THEN [cause |-> "TypeError", keys |-> <<>>]
    ELSE [cause |-> "",
          keys |-> ObjectKeys(orEmptyObject(getProp(f[lockPath].doc, PACKAGES)))]

\* yaml.load(fs.readFileSync(lockPath, 'utf8')), lockData?.packages || {}
\* and Object.keys(packages), for a path that exists
readPackageKeys(f, lockPath) ==
    IF f[lockPath].kind = "dir" THEN [cause |-> "EISDIR", keys |-> <<>>]
    ELSE IF ~f[lockPath].parses THEN [cause |-> "YAMLException", keys |-> <<>>]
    ELSE [cause |-> "",
          keys |-> ObjectKeys(orEmptyObject(getProp(f[lockPath].doc, PACKAGES)))]

RECURSIVE collectScopes(_, _)
collectScopes(keys, acc) ==
    IF keys = <<>> THEN acc
    ELSE collectScopes(Tail(keys),
                       IF pkgScopeMatch(Head(keys)).matched
                       THEN acc \cup {pkgScopeMatch(Head(keys)).scope}
                       ELSE acc)

\* extractScopes with the existence test inside the try block
extractScopesCheckInTry(f, lockPath) ==
    IF ~existsSync(f, lockPath)
    THEN [error |-> ParseError("Lockfile not found"), scopes |-> {}, reads |-> {}]
    ELSE IF readPackageKeys(f, lockPath).cause # ""
    THEN [error |-> ParseError(readPackageKeys(f, lockPath).cause),
          scopes |-> {}, reads |-> {lockPath}]
    ELSE [error |-> NoError,
          scopes |-> collectScopes(readPackageKeys(f, lockPath).keys, {}),
          reads |-> {lockPath}]

extractScopes(f, lockPath) ==
    IF ~existsSync(f, lockPath)
    THEN [error |-> NotFoundError, scopes |-> {}, reads |-> {}]
    ELSE IF readPackageKeys(f, lockPath).cause # ""
    THEN [error |-> ParseError(readPackageKeys(f, lockPath).cause),
          scopes |-> {}, reads |-> {lockPath}]
    ELSE [error |-> NoError,
          scopes |-> collectScopes(readPackageKeys(f, lockPath).keys, {}),
          reads |-> {lockPath}]

\* packagesByRegistry[registry].push(pkg), after the list is created when
\* !packagesByRegistry[registry]; a registry named like a property of
\* Object.prototype is found there, no list is created and push is no function
pushPackage(acc, registry, pkg) ==
    IF registry \in DOMAIN acc.map
    THEN [acc EXCEPT !.map = put(@, registry, Append(acc.map[registry], pkg))]
    ELSE IF registry \in ObjectPrototypeKeys
    THEN [acc EXCEPT !.cause = "TypeError"]
    ELSE [acc EXCEPT !.map = put(@, registry, <<pkg>>)]

\* registry && registry !== defaultRegistry
nonDefaultRegistry(regMap, scope, defaultReg) ==
    /\ scope \in DOMAIN regMap
    /\ regMap[scope] # <<>>
    /\ regMap[scope] # defaultReg

RECURSIVE classify(_, _, _, _)
classify(keys, regMap, defaultReg, acc) ==
    IF keys = <<>> \/ acc.cause # "" THEN acc
    ELSE classify(Tail(keys), regMap, defaultReg,
           IF /\ pkgScopeMatch(Head(keys)).matched
              /\ nonDefaultRegistry(regMap, pkgScopeMatch(Head(keys)).scope,
                                    defaultReg)
           THEN pushPackage(acc, regMap[pkgScopeMatch(Head(keys)).scope],
                            Head(keys))
           ELSE acc)

extractPackagesByRegistry(f, lockPath, regMap, defaultReg) ==
    IF ~existsSync(f, lockPath)
    THEN [error |-> NotFoundError, packagesByRegistry |-> EmptyMap,
          reads |-> {}]
    ELSE IF readPackageKeys(f, lockPath).cause # ""
    THEN [error |-> ParseError(readPackageKeys(f, lockPath).cause),
          packagesByRegistry |-> EmptyMap, reads |-> {lockPath}]
    ELSE LET r == classify(readPackageKeys(f, lockPath).keys, regMap,
                           defaultReg, [map |-> EmptyMap, cause |-> ""])
         IN  IF r.cause # ""
             THEN [error |-> ParseError(r.cause),
                   packagesByRegistry |-> EmptyMap, reads |-> {lockPath}]
             ELSE [error |-> NoError, packagesByRegistry |-> r.map,
                   reads |-> {lockPath}]

\* ------------------------------------------------------- displaySummary
RECURSIVE totalLength(_, _)
totalLength(m, ks) ==
    IF ks = {} THEN 0
    ELSE LET k == CHOOSE x \in ks : TRUE
         IN  Len(m[k]) + totalLength(m, ks \ {k})

\* pnpm-registry-summary.js: what is printed, and packagesByRegistry as the
\* in-place sort of each list leaves it
displaySummary(scopeSet, regMap, byRegistry, defaultReg, files) ==
    IF DOMAIN byRegistry = {}
    THEN [printed |-> [files |-> files, defaultRegistry |-> defaultReg,
                       registries |-> regMap, allDefault |-> TRUE,
                       packages |-> EmptyMap, totalPackages |-> 0,
                       registryCount |-> 0],
          packagesByRegistry |-> byRegistry]
    ELSE LET sorted == [r \in DOMAIN byRegistry |-> sort(byRegistry[r])]
         IN  [printed |-> [files |-> files, defaultRegistry |-> defaultReg,
                           registries |-> regMap, allDefault |-> FALSE,
                           packages |-> sorted,
                           totalPackages |-> totalLength(sorted, DOMAIN sorted),
                           registryCount |-> Cardinality(DOMAIN sorted)],
              packagesByRegistry |-> sorted]

\* the earlier script: scopes.filter(scope => registryMap[scope]).sort()
nonDefaultScopes(scopeSet, regMap) ==
    sortSet({s \in scopeSet : s \in DOMAIN regMap /\ regMap[s] # <<>>})

\* the earlier script's displaySummary
displayScopeSummary(scopeSet, regMap, defaultReg, files) ==
    [files |-> files, defaultRegistry |-> defaultReg, registries |-> regMap,
     noScopes |-> scopeSet = {},
     nonDefaultScopes |->
         IF scopeSet = {} THEN <<>> ELSE nonDefaultScopes(scopeSet, regMap),
     scopeCount |-> Cardinality(scopeSet)]

\* ---------------------------------------------------------------- inputs
ScopeA == << "@", "a" >>
ScopeB == << "@", "b" >>
UrlR1 == << "R", "1" >>
UrlR2 == << "R", "2" >>

\* '<scope>:registry<ws1>=<ws2><rest>'
ScopedLine(scope, ws1, ws2, rest) ==
    scope \o << ":" >> \o REGISTRY \o ws1 \o << "=" >> \o ws2 \o rest

\* '@a:registry=R1'
LineA1 == ScopedLine(ScopeA, <<>>, <<>>, UrlR1)
\* '@a:registry = R2 # c'
LineA2 == ScopedLine(ScopeA, << " " >>, << " " >>, UrlR2 \o << " ", "#", " ", "c" >>)
\* '<tab>@b:registry=R1 '
LineB1 == << "\t" >> \o ScopedLine(ScopeB, <<>>, <<>>, UrlR1) \o << " " >>
\* '@b:registry=R2'
LineB2 == ScopedLine(ScopeB, <<>>, <<>>, UrlR2)
\* 'registry=R1'
LineDefault1 == REGISTRY \o << "=" >> \o UrlR1
\* 'registry = R2'
LineDefault2 == REGISTRY \o << " ", "=", " " >> \o UrlR2
\* '# @a:registry=R2'
LineCommented == << "#", " " >> \o ScopedLine(ScopeA, <<>>, <<>>, UrlR2)
\* '@a:registry= #x'
LineEmptyValue == ScopedLine(ScopeA, <<>>, << " " >>, << "#", "x" >>)
\* '@b:registry=constructor'
LineProto ==
    ScopedLine(ScopeB, <<>>, <<>>,
               << "c", "o", "n", "s", "t", "r", "u", "c", "t", "o", "r" >>)
\* '@a:b=R2'
LineJunk == << "@", "a", ":", "b", "=" >> \o UrlR2

UserLines == {LineA1, LineB1, LineDefault1}
ProjectLines == {LineA1, LineA2, LineDefault2, LineCommented}

PkgAX == << "@", "a", "/", "x" >>
PkgAY == << "@", "a", "/", "y" >>
PkgBZ == << "@", "b", "/", "z" >>
PkgKeys ==
    { PkgAX, PkgAY, PkgBZ,
      << "b", "a", "z" >>,
      << "@", "c" >>,
      << "@", "/", "x" >>,
      << "/", "@", "a", "/", "x" >>,
      << "7" >> }

\* sequences of distinct elements of S, of length at most n
DistinctSeqs(S, n) ==
    {q \in SeqUpTo(S, n) : \A i, j \in 1..Len(q) : i # j => q[i] # q[j]}

\* a document with a top-level 'packages' field of value v
DocWithPackages(v) == Obj(<< [k |-> PACKAGES, v |-> v] >>)

\* {packages: {'@b/z': {}, '@a/x': {}}}
Doc0 == DocWithPackages(ObjOfKeys(<< PkgBZ, PkgAX >>))

\* documents that parse and hold no mapping of packages
OddDocs ==
    { Undefined, Null, Str(PkgAX), Num(7), Bool(TRUE), Arr(<< Str(PkgAX) >>),
      Obj(<<>>),
      Obj(<< [k |-> PkgAX, v |-> Obj(<<>>)] >>),
      DocWithPackages(Null), DocWithPackages(Bool(FALSE)),
      DocWithPackages(Bool(TRUE)), DocWithPackages(Num(0)),
      DocWithPackages(Num(7)), DocWithPackages(Str(<<>>)),
      DocWithPackages(Str(PkgAX)),
      DocWithPackages(Arr(<< Str(PkgAX), Str(PkgBZ) >>)) }

MappingDocs == {DocWithPackages(ObjOfKeys(q)) : q \in DistinctSeqs(PkgKeys, MaxPkgs)}

TextFiles(lines) == {TextFile(q) : q \in SeqUpTo(lines, MaxLines)}

SummaryScript == "pnpm-registry-summary.js"
ScopeScript == "part_000"

\* ----------------------------------------------------------------- state
VARIABLES
    script,              \* which of the two scripts runs
    argv2,               \* process.argv[2]
    cwd,                 \* process.cwd()
    fs,                  \* the file system
    pc,                  \* main's position, or "api" when the functions are called directly
    lockfilePath,        \* main's lockfilePath, or the caller's lockfile path
    npmrcFiles,          \* the array findNpmrcFiles returned
    registryMap,
    defaultRegistry,
    scopes,
    packagesByRegistry,
    have,                \* the results assigned so far
    thrown,              \* the error the last call raised, NoError when it returned
    stdout,
    stderr,
    exitCode,
    reads,               \* the paths handed to fs.readFileSync
    calls,               \* number of direct calls made
    lastCall             \* the last function called with its arguments

vars ==
    << script, argv2, cwd, fs, pc, lockfilePath, npmrcFiles, registryMap,
       defaultRegistry, scopes, packagesByRegistry, have, thrown, stdout,
       stderr, exitCode, reads, calls, lastCall >>

NoCall == [fn |-> "", lockPath |-> NullPath, filePaths |-> <<>>]

\* a file system with the given entries
FileSystem(homeRc, projRc, homeLock, projLock) ==
    [p \in Paths |->
        IF p = join(HomeDir, NPMRC) THEN homeRc
        ELSE IF p = join(ProjDir, NPMRC) THEN projRc
        ELSE IF p = join(HomeDir, LOCKFILE) THEN homeLock
        ELSE projLock]

InitRun ==
    /\ npmrcFiles = <<>>
    /\ registryMap = EmptyMap
    /\ defaultRegistry = <<>>
    /\ scopes = {}
    /\ packagesByRegistry = EmptyMap
    /\ have = {}
    /\ thrown = NoError
    /\ stdout = <<>>
    /\ stderr = <<>>
    /\ exitCode = 0
    /\ reads = {}
    /\ calls = 0
    /\ lastCall = NoCall

\* the script run on a project whose two .npmrc files vary
InitConfigs ==
    /\ script = SummaryScript
    /\ argv2 = AbsArg(ProjDir)
    /\ cwd = ProjDir
    /\ \E homeRc \in {Absent} \cup TextFiles(UserLines),
          projRc \in {Absent} \cup TextFiles(ProjectLines) :
          fs = FileSystem(homeRc, projRc, Absent, YamlFile(Doc0))
    /\ pc = "start"
    /\ lockfilePath = NullPath
    /\ InitRun

\* the pairs of user-level and project-level .npmrc run against the lockfiles
LockfileConfigs ==
    { << Absent, Absent >>,
      << Absent, TextFile(<< LineA1 >>) >>,
      << TextFile(<< LineDefault1 >>), TextFile(<< LineA1 >>) >>,
      << TextFile(<< LineDefault1 >>), TextFile(<< LineB1 >>) >>,
      << Absent, TextFile(<< LineA1, LineB2 >>) >>,
      << Absent, TextFile(<< LineEmptyValue >>) >>,
      << Absent, TextFile(<< LineProto >>) >>,
      << Absent, TextFile(<< LineJunk >>) >> }

\* either script run on a lockfile that varies
InitLockfiles ==
    /\ script \in {SummaryScript, ScopeScript}
    /\ argv2 = RelArg
    /\ cwd = ProjDir
    /\ \E rc \in LockfileConfigs, doc \in OddDocs \cup MappingDocs :
          fs = FileSystem(rc[1], rc[2], Absent, YamlFile(doc))
    /\ pc = "start"
    /\ lockfilePath = NullPath
    /\ InitRun

\* either script run with an argument and files that may be missing or unusable
InitInvocations ==
    /\ script \in {SummaryScript, ScopeScript}
    /\ argv2 \in {NoArg, EmptyArg, RelArg, AbsArg(HomeDir), AbsArg(ProjDir)}
    /\ cwd \in Dirs
    /\ \E homeRc \in {Absent, Directory, TextFile(<< LineA1 >>)},
          projRc \in {Absent, Directory, TextFile(<< LineA2 >>)},
          homeLock \in {Absent, Directory, BadYamlFile, YamlFile(Doc0)},
          projLock \in {Absent, Directory, BadYamlFile, YamlFile(Doc0)} :
          fs = FileSystem(homeRc, projRc, homeLock, projLock)
    /\ pc = "start"
    /\ lockfilePath = NullPath
    /\ InitRun

\* the functions called directly by a module that requires the script
InitApi ==
    /\ script = SummaryScript
    /\ argv2 = NoArg
    /\ cwd = ProjDir
    /\ \E homeRc \in {Absent, TextFile(<< LineA1, LineDefault1 >>)},
          projRc \in {Absent, TextFile(<< LineA2 >>), TextFile(<< LineDefault2 >>)},
          homeLock \in {Absent, YamlFile(Doc0)},
          projLock \in {Absent, Directory, BadYamlFile, YamlFile(Doc0)} :
          fs = FileSystem(homeRc, projRc, homeLock, projLock)
    /\ pc = "api"
    /\ lockfilePath \in {NullPath} \cup LockPaths
    /\ InitRun

Init == InitConfigs \/ InitLockfiles \/ InitInvocations \/ InitApi

\* --------------------------------------------------------------- actions
Env == << script, argv2, cwd, fs >>
Results == << npmrcFiles, registryMap, defaultRegistry, scopes, packagesByRegistry, have >>

\* where a call made at pc returns to, and where it goes when it throws
Return(next) == IF pc = "api" THEN "api" ELSE next
Throw == IF pc = "api" THEN "api" ELSE "catch"

Callable(at) ==
    \/ pc = at
    \/ pc = "api" /\ calls < MaxCalls

Counted == IF pc = "api" THEN calls + 1 ELSE calls

\* main: no argument
MainUsage ==
    /\ pc = "start"
    /\ falsyArg(argv2)
    /\ stderr' = Append(stderr, [marker |-> "usage", message |-> ""])
    /\ exitCode' = 1
    /\ pc' = "exited"
    /\ UNCHANGED << Env, Results, lockfilePath, thrown, stdout, reads, calls, lastCall >>

\* main: the resolved lockfile does not exist
MainLockfileNotFound ==
    /\ pc = "start"
    /\ ~falsyArg(argv2)
    /\ \/ resolveLockfilePath(argv2, cwd) = NullPath
       \/ ~existsSync(fs, resolveLockfilePath(argv2, cwd))
    /\ lockfilePath' = resolveLockfilePath(argv2, cwd)
    /\ stderr' = Append(stderr, [marker |-> "", message |-> "Lockfile not found"])
    /\ exitCode' = 1
    /\ pc' = "exited"
    /\ UNCHANGED << Env, Results, thrown, stdout, reads, calls, lastCall >>

\* main: the resolved lockfile exists, the try block is entered
MainLockfileFound ==
    /\ pc = "start"
    /\ ~falsyArg(argv2)
    /\ resolveLockfilePath(argv2, cwd) # NullPath
    /\ existsSync(fs, resolveLockfilePath(argv2, cwd))
    /\ lockfilePath' = resolveLockfilePath(argv2, cwd)
    /\ pc' = "find"
    /\ UNCHANGED << Env, Results, thrown, stdout, stderr, exitCode, reads, calls, lastCall >>

CallFindNpmrcFiles ==
    /\ Callable("find")
    /\ npmrcFiles' = findNpmrcFiles(fs, lockfilePath)
    /\ have' = have \cup {"npmrcFiles"}
    /\ thrown' = NoError
    /\ pc' = Return("parse")
    /\ calls' = Counted
    /\ lastCall' = [fn |-> "findNpmrcFiles", lockPath |-> lockfilePath, filePaths |-> <<>>]
    /\ UNCHANGED << Env, lockfilePath, registryMap, defaultRegistry, scopes,
                    packagesByRegistry, stdout, stderr, exitCode, reads >>

CallParseNpmrc ==
    /\ Callable("parse")
    /\ "npmrcFiles" \in have
    /\ LET r == parseNpmrc(fs, npmrcFiles) IN
         /\ npmrcFiles' = r.filePaths
         /\ reads' = reads \cup r.reads
         /\ thrown' = r.error
         /\ IF r.error = NoError
            THEN /\ registryMap' = r.registryMap
                 /\ defaultRegistry' = r.defaultRegistry
                 /\ have' = have \cup {"registryMap"}
                 /\ pc' = Return("scopes")
            ELSE /\ UNCHANGED << registryMap, defaultRegistry, have >>
                 /\ pc' = Throw
    /\ calls' = Counted
    /\ lastCall' = [fn |-> "parseNpmrc", lockPath |-> NullPath, filePaths |-> npmrcFiles]
    /\ UNCHANGED << Env, lockfilePath, scopes, packagesByRegistry, stdout, stderr, exitCode >>

CallExtractScopes ==
    /\ Callable("scopes")
    /\ LET r == extractScopes(fs, lockfilePath) IN
         /\ reads' = reads \cup r.reads
         /\ thrown' = r.error
         /\ IF r.error = NoError
            THEN /\ scopes' = r.scopes
                 /\ have' = have \cup {"scopes"}
                 /\ pc' = Return(IF script = SummaryScript THEN "packages" ELSE "display")
            ELSE /\ UNCHANGED << scopes, have >>
                 /\ pc' = Throw
    /\ calls' = Counted
    /\ lastCall' = [fn |-> "extractScopes", lockPath |-> lockfilePath, filePaths |-> <<>>]
    /\ UNCHANGED << Env, lockfilePath, npmrcFiles, registryMap, defaultRegistry,
                    packagesByRegistry, stdout, stderr, exitCode >>

CallExtractPackagesByRegistry ==
    /\ Callable("packages")
    /\ script = SummaryScript
    /\ "registryMap" \in have
    /\ LET r == extractPackagesByRegistry(fs, lockfilePath, registryMap, defaultRegistry) IN
         /\ reads' = reads \cup r.reads
         /\ thrown' = r.error
         /\ IF r.error = NoError
            THEN /\ packagesByRegistry' = r.packagesByRegistry
                 /\ have' = have \cup {"packagesByRegistry"}
                 /\ pc' = Return("display")
            ELSE /\ UNCHANGED << packagesByRegistry, have >>
                 /\ pc' = Throw
    /\ calls' = Counted
    /\ lastCall' = [fn |-> "extractPackagesByRegistry", lockPath |-> lockfilePath, filePaths |-> <<>>]
    /\ UNCHANGED << Env, lockfilePath, npmrcFiles, registryMap, defaultRegistry,
                    scopes, stdout, stderr, exitCode >>

\* pnpm-registry-summary.js: the summary is printed and main returns
DisplaySummary ==
    /\ pc = "display"
    /\ script = SummaryScript
    /\ LET d == displaySummary(scopes, registryMap, packagesByRegistry,
                               defaultRegistry, npmrcFiles) IN
         /\ stdout' = Append(stdout, d.printed)
         /\ packagesByRegistry' = d.packagesByRegistry
    /\ exitCode' = 0
    /\ pc' = "exited"
    /\ UNCHANGED << Env, lockfilePath, npmrcFiles, registryMap, defaultRegistry,
                    scopes, have, thrown, stderr, reads, calls, lastCall >>

\* the earlier script: the summary is printed and main returns
DisplayScopeSummary ==
    /\ pc = "display"
    /\ script = ScopeScript
    /\ stdout' = Append(stdout, displayScopeSummary(scopes, registryMap,
                                                    defaultRegistry, npmrcFiles))
    /\ exitCode' = 0
    /\ pc' = "exited"
    /\ UNCHANGED << Env, Results, lockfilePath, thrown, stderr, reads, calls, lastCall >>

\* the catch block without process.exit(1)
MainCatchNoExit ==
    /\ pc = "catch"
    /\ stderr' = Append(stderr, [marker |-> "Error", message |-> thrown.message])
    /\ exitCode' = 0
    /\ pc' = "exited"
    /\ UNCHANGED << Env, Results, lockfilePath, thrown, stdout, reads, calls, lastCall >>

\* main's catch block
MainCatch ==
    /\ pc = "catch"
    /\ stderr' = Append(stderr, [marker |-> "Error", message |-> thrown.message])
    /\ exitCode' = 1
    /\ pc' = "exited"
    /\ UNCHANGED << Env, Results, lockfilePath, thrown, stdout, reads, calls, lastCall >>

Next ==
    \/ MainUsage
    \/ MainLockfileNotFound
    \/ MainLockfileFound
    \/ CallFindNpmrcFiles
    \/ CallParseNpmrc
    \/ CallExtractScopes
    \/ CallExtractPackagesByRegistry
    \/ DisplaySummary
    \/ DisplayScopeSummary
    \/ MainCatch

Spec == Init /\ [][Next]_vars

\* ------------------------------------------------- vocabulary of the claims
Min(S) == CHOOSE x \in S : \A y \in S : x <= y
Max(S) == CHOOSE x \in S : \A y \in S : y <= x

\* s without its leading and trailing whitespace
StripWs(s) ==
    LET solid == {i \in 1..Len(s) : s[i] \notin WS}
    IN  IF solid = {} THEN <<>> ELSE SubSeq(s, Min(solid), Max(solid))

\* s up to its first '#'
BeforeHash(s) ==
    LET hashes == {i \in 1..Len(s) : s[i] = "#"}
    IN  IF hashes = {} THEN s ELSE SubSeq(s, 1, Min(hashes) - 1)

\* the key of the default registry, beside the scope keys
DefaultKey == <<>>
ScopeKeys == {ScopeA, ScopeB, << "@", "c" >>}

\* what a declaration of key starts with
DeclarationHead(key) ==
    IF key = DefaultKey THEN REGISTRY ELSE key \o << ":" >> \o REGISTRY

\* the position of the '=' of a declaration of key in the effective line e, or 0
EqualsAt(e, key) ==
    LET h == Len(DeclarationHead(key))
        at == {k \in (h + 1)..(Len(e) - 1) :
                  /\ e[k] = "="
                  /\ \A j \in (h + 1)..(k - 1) : e[j] \in WS}
    IN  IF Len(e) > h /\ SubSeq(e, 1, h) = DeclarationHead(key) /\ at # {}
        THEN Min(at) ELSE 0

\* the line declares key
Declares(line, key) == EqualsAt(BeforeHash(StripWs(line)), key) # 0

\* the value the line declares for key
DeclaredValue(line, key) ==
    LET e == BeforeHash(StripWs(line))
    IN  StripWs(SubSeq(e, EqualsAt(e, key) + 1, Len(e)))

\* the config file declares key, and the value of its last declaration
FileDeclares(entry, key) ==
    /\ entry.kind = "file"
    /\ \E i \in 1..Len(entry.lines) : Declares(entry.lines[i], key)

FileValue(entry, key) ==
    DeclaredValue(
        entry.lines[Max({i \in 1..Len(entry.lines) : Declares(entry.lines[i], key)})],
        key)

UserNpmrc == join(HomeDir, NPMRC)
ProjectNpmrc(lockPath) == join(lockPath.dir, NPMRC)

\* the lockfile entry holds a document with a mapping of packages
HasPackageMap(entry) ==
    /\ entry.kind = "file"
    /\ entry.parses
    /\ entry.doc.t = "object"
    /\ \E i \in 1..Len(entry.doc.props) :
          entry.doc.props[i].k = PACKAGES /\ entry.doc.props[i].v.t = "object"

\* the package keys of the document, in document order
SourceKeys(entry) ==
    LET m == entry.doc.props[CHOOSE i \in 1..Len(entry.doc.props) :
                                 entry.doc.props[i].k = PACKAGES].v
    IN  [i \in 1..Len(m.props) |-> m.props[i].k]

\* the package key starts with '@', one or more characters other than '/', '/'
HasScope(k) ==
    /\ Len(k) >= 3
    /\ k[1] = "@"
    /\ \E i \in 3..Len(k) : k[i] = "/" /\ \A j \in 2..(i - 1) : k[j] # "/"

TheScope(k) == SubSeq(k, 1, Min({i \in 1..Len(k) : k[i] = "/"}) - 1)

\* the calls on a lockfile path
LockfileCalls == {"extractScopes", "extractPackagesByRegistry"}

\* ------------------------------------------------------------------- C1
\* C1: when main has parsed the config files it located, every scope key maps
\* to the last value the project-level file declares for it if that file
\* declares it, otherwise to the last value the user-level file declares for it
\* if that file declares it, and otherwise has no entry.
C1_ProjectOverridesUser ==
    pc = "scopes" =>
        /\ DOMAIN registryMap \subseteq ScopeKeys
        /\ \A s \in ScopeKeys :
              IF FileDeclares(fs[ProjectNpmrc(lockfilePath)], s)
              THEN /\ s \in DOMAIN registryMap
                   /\ registryMap[s] = FileValue(fs[ProjectNpmrc(lockfilePath)], s)
              ELSE IF FileDeclares(fs[UserNpmrc], s)
              THEN /\ s \in DOMAIN registryMap
                   /\ registryMap[s] = FileValue(fs[UserNpmrc], s)
              ELSE s \notin DOMAIN registryMap

\* both files declare @a, with different values, and the project's last
\* declaration differs from its first
C1_Witness ==
    /\ pc = "scopes"
    /\ FileDeclares(fs[UserNpmrc], ScopeA)
    /\ FileDeclares(fs[ProjectNpmrc(lockfilePath)], ScopeA)
    /\ FileValue(fs[UserNpmrc], ScopeA) = UrlR1
    /\ fs[ProjectNpmrc(lockfilePath)].lines = << LineA1, LineA2 >>
    /\ registryMap[ScopeA] = UrlR2

\* ------------------------------------------------------------------- C3
\* C3: extractScopes on a lockfile with a package map returns exactly the set
\* of the '@scope' prefixes of the package keys that have one.
C3_ScopesAreThePrefixes ==
    (/\ lastCall.fn = "extractScopes"
     /\ lastCall.lockPath \in DOMAIN fs
     /\ HasPackageMap(fs[lastCall.lockPath]))
    => /\ thrown = NoError
       /\ scopes = {TheScope(k) :
                      k \in {x \in Range(SourceKeys(fs[lastCall.lockPath])) : HasScope(x)}}

\* two keys of one scope and an unscoped key yield one scope
C3_Witness ==
    /\ lastCall.fn = "extractScopes"
    /\ lastCall.lockPath \in DOMAIN fs
    /\ HasPackageMap(fs[lastCall.lockPath])
    /\ SourceKeys(fs[lastCall.lockPath]) = << PkgAX, << "b", "a", "z" >>, PkgAY >>
    /\ scopes = {ScopeA}

\* ------------------------------------------------------------------- C4
\* C4: extractScopes and extractPackagesByRegistry fail with 'Lockfile not
\* found' on a path that does not exist and with 'Failed to parse lockfile' on a
\* file that does not parse; neither then yields a result.
C4_NotFoundAndParseErrors ==
    lastCall.fn \in LockfileCalls =>
        LET result == IF lastCall.fn = "extractScopes"
                      THEN "scopes" ELSE "packagesByRegistry"
            missing == \/ lastCall.lockPath \notin DOMAIN fs
                       \/ fs[lastCall.lockPath].kind = "absent"
        IN  /\ missing => thrown = NotFoundError /\ result \notin have
            /\ (/\ ~missing
                /\ fs[lastCall.lockPath].kind = "file"
                /\ ~fs[lastCall.lockPath].parses)
               => /\ thrown.message = "Failed to parse lockfile"
                  /\ thrown # NotFoundError
                  /\ result \notin have

\* extractScopes was called on a path that does not exist
C4_Witness ==
    /\ lastCall.fn = "extractScopes"
    /\ lastCall.lockPath \in DOMAIN fs
    /\ fs[lastCall.lockPath].kind = "absent"
    /\ thrown = NotFoundError

\* ------------------------------------------------------------------- C5
\* C5: a finished run of main has exit code 1 and has read no file when the
\* argument is missing or the lockfile does not exist, exit code 1 when a later
\* step failed, and exit code 0 with the summary printed once when every step
\* succeeded; a run with exit code 1 has printed no summary.
C5_Outcomes ==
    pc = "exited" =>
        LET noArg == ~argv2.given \/ argv2.base = ""
            path == IF argv2.abs THEN join(argv2.dir, argv2.base)
                    ELSE join(cwd, argv2.base)
            steps == IF script = SummaryScript
                     THEN {"npmrcFiles", "registryMap", "scopes", "packagesByRegistry"}
                     ELSE {"npmrcFiles", "registryMap", "scopes"}
        IN  /\ exitCode \in {0, 1}
            /\ exitCode = 1 => stdout = <<>>
            /\ noArg => exitCode = 1 /\ reads = {}
            /\ (~noArg /\ fs[path].kind = "absent") => exitCode = 1 /\ reads = {}
            /\ (~noArg /\ fs[path].kind # "absent") =>
                  /\ thrown # NoError => exitCode = 1
                  /\ thrown = NoError =>
                        exitCode = 0 /\ Len(stdout) = 1 /\ have = steps
            /\ exitCode = 0 =>
                  /\ fs[path].kind = "file"
                  /\ fs[path].parses
                  /\ \A p \in Range(npmrcFiles) : fs[p].kind = "file"

\* a run whose lockfile does not parse ends with exit code 1 and no summary
C5_Witness ==
    /\ pc = "exited"
    /\ thrown.message = "Failed to parse lockfile"
    /\ exitCode = 1
    /\ stdout = <<>>
    /\ reads # {}

\* ------------------------------------------------------------------- C9
\* C9: on a lockfile that parses and holds no mapping of packages, extractScopes
\* returns the empty set and extractPackagesByRegistry the empty mapping, and
\* neither raises.
C9_NoPackageMapIsEmpty ==
    (/\ lastCall.fn \in LockfileCalls
     /\ lastCall.lockPath \in DOMAIN fs
     /\ fs[lastCall.lockPath].kind = "file"
     /\ fs[lastCall.lockPath].parses
     /\ ~HasPackageMap(fs[lastCall.lockPath]))
    => /\ thrown = NoError
       /\ lastCall.fn = "extractScopes" => "scopes" \in have /\ scopes = {}
       /\ lastCall.fn = "extractPackagesByRegistry" =>
             "packagesByRegistry" \in have /\ packagesByRegistry = EmptyMap

\* extractPackagesByRegistry returned on a document whose 'packages' is a list
C9_Witness ==
    /\ lastCall.fn = "extractPackagesByRegistry"
    /\ pc = "display"
    /\ fs[lastCall.lockPath].doc = DocWithPackages(Arr(<< Str(PkgAX), Str(PkgBZ) >>))
    /\ ScopeA \in DOMAIN registryMap
    /\ packagesByRegistry = EmptyMap

\* ------------------------------------------------------------------- C6
\* the user-level and project-level paths findNpmrcFiles keeps
UserPart == IF fs[UserNpmrc].kind # "absent" THEN << UserNpmrc >> ELSE <<>>
ProjectPart ==
    IF /\ lastCall.lockPath # NullPath
       /\ fs[ProjectNpmrc(lastCall.lockPath)].kind # "absent"
    THEN << ProjectNpmrc(lastCall.lockPath) >> ELSE <<>>

\* C6 as stated: findNpmrcFiles returns the user-level path, when it exists,
\* followed by the project-level path, when a lockfile path is given and it
\* exists, and raises no error.
C6_UserThenProject ==
    lastCall.fn = "findNpmrcFiles" =>
        thrown = NoError /\ npmrcFiles = UserPart \o ProjectPart

\* C6 as amended: findNpmrcFiles returns the project-level path, when a
\* lockfile path is given and it exists, followed by the user-level path, when
\* it exists; a path that does not exist is omitted and no error is raised.
C6_ProjectThenUser ==
    lastCall.fn = "findNpmrcFiles" =>
        thrown = NoError /\ npmrcFiles = ProjectPart \o UserPart

\* both files exist, at different paths
C6_Witness ==
    /\ lastCall.fn = "findNpmrcFiles"
    /\ UserPart # <<>>
    /\ ProjectPart # <<>>
    /\ UserPart # ProjectPart
    /\ Len(npmrcFiles) = 2

\* ------------------------------------------------------------------- C7
\* the positions of the files of the input sequence that declare key
DeclaringPositions(key) ==
    {i \in 1..Len(lastCall.filePaths) : FileDeclares(fs[lastCall.filePaths[i]], key)}

\* what parseNpmrc returned for key
Returned(key) == IF key = DefaultKey THEN defaultRegistry ELSE registryMap[key]

\* C7 as stated: when two files of the sequence passed to parseNpmrc declare
\* the same key, the returned value is the one declared by the file that is
\* last in the sequence.
C7_LastFileWins ==
    (lastCall.fn = "parseNpmrc" /\ thrown = NoError) =>
        \A key \in ScopeKeys \cup {DefaultKey} :
            Cardinality(DeclaringPositions(key)) >= 2 =>
                Returned(key) =
                    FileValue(fs[lastCall.filePaths[Max(DeclaringPositions(key))]], key)

\* C7 as amended: when two files of the sequence passed to parseNpmrc declare
\* the same key, the returned value is the one declared by the file that is
\* first in the sequence.
C7_FirstFileWins ==
    (lastCall.fn = "parseNpmrc" /\ thrown = NoError) =>
        \A key \in ScopeKeys \cup {DefaultKey} :
            Cardinality(DeclaringPositions(key)) >= 2 =>
                Returned(key) =
                    FileValue(fs[lastCall.filePaths[Min(DeclaringPositions(key))]], key)

\* two files of the sequence declare the default registry with different values
C7_Witness ==
    /\ lastCall.fn = "parseNpmrc"
    /\ thrown = NoError
    /\ DeclaringPositions(DefaultKey) = {1, 2}
    /\ FileValue(fs[lastCall.filePaths[1]], DefaultKey)
         # FileValue(fs[lastCall.filePaths[2]], DefaultKey)
    /\ defaultRegistry = FileValue(fs[lastCall.filePaths[1]], DefaultKey)

\* ------------------------------------------------------------------- C8
\* C8: parseNpmrc leaves the sequence it is given as it was: after the call the
\* caller's sequence has the same elements in the same order as before.
C8_PathsUnchanged ==
    lastCall.fn = "parseNpmrc" => npmrcFiles = lastCall.filePaths

\* ------------------------------------------------------------------- C2
\* the package key belongs in the list of registry r
AssignedTo(k, r) ==
    /\ HasScope(k)
    /\ TheScope(k) \in DOMAIN registryMap
    /\ registryMap[TheScope(k)] = r
    /\ r # defaultRegistry

\* C2: on a lockfile with a package map extractPackagesByRegistry returns a
\* mapping whose list for registry r is exactly the package keys, in document
\* order, whose scope is mapped to r with r different from the default
\* registry; no other list exists and the default registry is no key.
C2_ListsPerRegistry ==
    (/\ lastCall.fn = "extractPackagesByRegistry"
     /\ pc # "exited"
     /\ lastCall.lockPath \in DOMAIN fs
     /\ HasPackageMap(fs[lastCall.lockPath]))
    => /\ thrown = NoError
       /\ defaultRegistry \notin DOMAIN packagesByRegistry
       /\ \A r \in DOMAIN packagesByRegistry \cup Values(registryMap) :
             LET expected == SelectSeq(SourceKeys(fs[lastCall.lockPath]),
                                       LAMBDA k : AssignedTo(k, r))
             IN  IF expected = <<>> THEN r \notin DOMAIN packagesByRegistry
                 ELSE /\ r \in DOMAIN packagesByRegistry
                      /\ packagesByRegistry[r] = expected

\* ------------------------------------------------------------------ C10
\* C10: every scope the earlier script lists as using a non-default registry is
\* a scope of the lockfile whose mapped registry differs from the default
\* registry.
C10_ListedScopesAreNonDefault ==
    (script = ScopeScript /\ pc = "exited" /\ stdout # <<>>) =>
        \A i \in 1..Len(stdout[1].nonDefaultScopes) :
            LET s == stdout[1].nonDefaultScopes[i]
            IN  /\ s \in scopes
                /\ s \in DOMAIN registryMap
                /\ registryMap[s] # defaultRegistry

====
